---- MODULE Spec2Model ----
(***************************************************************************)
(* A model of the three consumers of the Sick LMS 2xx driver:              *)
(*   - the MATLAB bridge  (matlab/interfaces/lms/lmsmex.cc)                *)
(*   - lms_simple_app     (c++/examples/lms/lms_simple_app/src/main.cc)    *)
(*   - lms_set_variant    (c++/examples/lms/lms_set_variant/src/main.cc)   *)
(* The driver class SickLMS itself is not part of these files; its         *)
(* behaviour (the Drv* operators and the conversion helpers) follows the   *)
(* design description: an operation either succeeds or raises one of the   *)
(* error kinds of the taxonomy, chosen by the environment.                 *)
(*                                                                         *)
(* Specification Spec    : the bridge, one step per MATLAB command, plus   *)
(*                         the exit hook, one step per loop iteration.     *)
(* Specification SpecCli : the two command line programs, one step per     *)
(*                         driver call.                                    *)
(***************************************************************************)
EXTENDS Integers, Sequences, FiniteSets, TLC

(***************************************************************************)
(* Program constants.                                                      *)
(***************************************************************************)
MAX_NUM_LMS_DEVICES == 4

NUM_SCANS == 10

(***************************************************************************)
(* Bounds of the model.                                                    *)
(***************************************************************************)
\* Device paths are 1..NumPaths; key 0 is the empty string "", the value of
\* a std::string that was never assigned (and the smallest key of the map).
NumPaths == 5

\* Largest number of right-hand-side (input) arguments tried.
MaxNrhs == 5

\* Largest number of left-hand-side (output) arguments tried.
MaxNlhs == 2

Keys == 0..NumPaths

EmptyPath == 0

(***************************************************************************)
(* Messages: the texts handed to mexErrMsgTxt (abbreviated), which is how  *)
(* the caller tells one failure from another.                              *)
(***************************************************************************)
MsgOk == "ok"

MsgUsage == "Usage: sicklms(cmd,[args])"

MsgReadCmd == "sicklms: Could not read command."

MsgUnknownCmd == "sicklms: Unrecognized command!"

MsgArgsIn == "sicklms: Invalid number of input args"

MsgArgsOut == "Invalid number of output args."

MsgReadArg == "sicklms: Could not read argument!"

MsgCapacity == "sicklms: Max number of devices already running!"

MsgBaud == "sicklms: Invalid baud rate!"

MsgIO == "sicklms: An I/O error occurred!"

MsgError == "sicklms: An error occurred!"

MsgNoDevice == "sicklms: A device hasn't been initialized yet!"

MsgMultiple == "sicklms: Multiple devices are operating!"

MsgNoPath == "sicklms: No device associated with given path!"

MsgNotInit == "sicklms: Device is not initialized!"

MsgFast == "sicklms: Variant command is not supported by this Sick model (LMS Fast)!"

MsgAngle == "sicklms: Invalid scan angle (FOV)!"

MsgRes == "sicklms: Invalid scan resolution!"

MsgConfig == "sicklms: A config error occurred!"

\* Not a message of the bridge: the command dereferenced a null SickLMS*.
SIGSEGV == "SIGSEGV"

(***************************************************************************)
(* The driver's enumerations and conversions (SickLMS.hh).                 *)
(***************************************************************************)
SICK_BAUD_UNKNOWN == "SICK_BAUD_UNKNOWN"

SICK_SCAN_ANGLE_UNKNOWN == "SICK_SCAN_ANGLE_UNKNOWN"

SICK_SCAN_RESOLUTION_UNKNOWN == "SICK_SCAN_RESOLUTION_UNKNOWN"

IntToSickBaud(i) ==
  CASE i = 9600   -> "SICK_BAUD_9600"
    [] i = 19200  -> "SICK_BAUD_19200"
    [] i = 38400  -> "SICK_BAUD_38400"
    [] i = 500000 -> "SICK_BAUD_500K"
    [] OTHER      -> SICK_BAUD_UNKNOWN

StringToSickBaud(s) ==
  CASE s = "9600"   -> "SICK_BAUD_9600"
    [] s = "19200"  -> "SICK_BAUD_19200"
    [] s = "38400"  -> "SICK_BAUD_38400"
    [] s = "500000" -> "SICK_BAUD_500K"
    [] OTHER        -> SICK_BAUD_UNKNOWN

IntToSickScanAngle(i) ==
  CASE i = 100 -> "SICK_SCAN_ANGLE_100"
    [] i = 180 -> "SICK_SCAN_ANGLE_180"
    [] OTHER   -> SICK_SCAN_ANGLE_UNKNOWN

\* The argument is a double, modelled in hundredths of a degree.
DoubleToSickScanResolution(h) ==
  CASE h = 25  -> "SICK_SCAN_RESOLUTION_25"
    [] h = 50  -> "SICK_SCAN_RESOLUTION_50"
    [] h = 100 -> "SICK_SCAN_RESOLUTION_100"
    [] OTHER   -> SICK_SCAN_RESOLUTION_UNKNOWN

\* (int) of a double: truncation toward zero.  Doubles are modelled in
\* tenths, so 96005 is 9600.5.
CastToInt(tenths) ==
  IF tenths >= 0 THEN tenths \div 10 ELSE -((-tenths) \div 10)

\* The numeric arguments MATLAB may pass, in tenths.
BaudArgs == {96000, 1152000}

AngleArgs == {1000, 1805, 900}

\* In hundredths.
ResArgs == {25, 50, 33}

DefaultAngle == "SICK_SCAN_ANGLE_180"

DefaultRes == "SICK_SCAN_RESOLUTION_50"

(***************************************************************************)
(* Devices.                                                                *)
(***************************************************************************)
\* The unit attached to each path: path 1 an LMS Fast, path 2 a unit that
\* accepts variant changes (or refuses one, or fails on the way), the others
\* units that answer every variant request with a negative acknowledgement.
DeviceIsFast(p) == p = 1

DeviceIsFlex(p) == p = 2

\* The baud rate each unit is configured for, the only one it answers at:
\* the unit on path 3 at 9600, the others at 38400.
DeviceBaud(p) == IF p = 3 THEN "SICK_BAUD_9600" ELSE "SICK_BAUD_38400"

SICK_MS_MODE_REFLECTIVITY == "SICK_MS_MODE_REFLECTIVITY"

\* The measuring mode each unit is in: the unit on path 4 returns
\* reflectivity only, the others are in the factory mode.
DeviceMeasuringMode(p) ==
  IF p = 4 THEN SICK_MS_MODE_REFLECTIVITY ELSE "SICK_MS_MODE_8_OR_80_FA_FB_DAZZLE"

(***************************************************************************)
(* SickLMS objects and the entries of sick_lms_map.                        *)
(***************************************************************************)
Absent ==
  [tag |-> "absent", path |-> 0, init |-> FALSE, baud |-> "none", angle |-> "none", res |-> "none"]

NullPtr ==
  [tag |-> "null", path |-> 0, init |-> FALSE, baud |-> "none", angle |-> "none", res |-> "none"]

NewSickLMS(p) ==
  [tag |-> "obj", path |-> p, init |-> FALSE, baud |-> "none", angle |-> "none", res |-> "none"]

InitOutcomes(p) == IF p = EmptyPath THEN {"io"} ELSE {"ok", "io", "timeout"}

UninitOutcomes == {"ok", "throw"}

VariantOutcomes(p) ==
  IF DeviceIsFlex(p) THEN {"ok", "config", "timeout", "io"} ELSE {"config"}

ScanOutcomes == {"ok", "timeout", "io"}

\* The order in which Initialize tries the baud rates: the desired one, then
\* the other supported ones in their fixed order.
SupportedBauds == <<"SICK_BAUD_9600", "SICK_BAUD_19200", "SICK_BAUD_38400", "SICK_BAUD_500K">>

FallbackOrder(b) == <<b>> \o SelectSeq(SupportedBauds, LAMBDA x : x # b)

\* The baud rates Initialize(b) tries on path p: none when the port cannot be
\* opened ("io"), all of them when the unit answers at none ("timeout"), and
\* otherwise those up to the one the unit answers at.
DrvTried(p, b, out) ==
  LET order == FallbackOrder(b)
      hit   == CHOOSE i \in 1..Len(order) : order[i] = DeviceBaud(p)
  IN CASE out = "io" -> <<>>
       [] out = "ok" -> SubSeq(order, 1, hit)
       [] OTHER      -> order

\* Initialize(b): the session is Ready at the baud rate the unit acknowledged.
DrvInitialize(s, b, out) ==
  IF out = "ok"
    THEN [s EXCEPT !.init = TRUE, !.baud = DeviceBaud(s.path),
                   !.angle = DefaultAngle, !.res = DefaultRes]
    ELSE s

DrvUninitialize(s, out) == [s EXCEPT !.init = FALSE]

DrvSetSickVariant(s, a, r, out) ==
  CASE out = "ok" -> [s EXCEPT !.angle = a, !.res = r]
    [] out = "io" -> [s EXCEPT !.init = FALSE]
    [] OTHER      -> s

DrvGetSickScan(s, out) ==
  IF out = "io" THEN [s EXCEPT !.init = FALSE] ELSE s

\* GetSickScanAngle(), in degrees, and GetSickScanResolution(), in hundredths
\* of a degree.
DrvGetSickScanAngle(s) == IF s.angle = "SICK_SCAN_ANGLE_100" THEN 100 ELSE 180

DrvGetSickScanResolution(s) ==
  CASE s.res = "SICK_SCAN_RESOLUTION_25"  -> 25
    [] s.res = "SICK_SCAN_RESOLUTION_100" -> 100
    [] OTHER                              -> 50

DrvGetSickMeasuringMode(s) == DeviceMeasuringMode(s.path)

\* GetSickMeasuringUnits() == SICK_MEASURING_UNITS_MM
DrvUnitsMM(s) == TRUE

\* The size of the buffers a scan is read into.
SICK_MAX_NUM_MEASUREMENTS == 721

\* The number of values of a scan: one per step of the resolution over the
\* field of view, both ends included.
DrvNumValues(s) ==
  LET fov == IF s.angle = "SICK_SCAN_ANGLE_100" THEN 100 ELSE 180
      res == CASE s.res = "SICK_SCAN_RESOLUTION_25"  -> 25
               [] s.res = "SICK_SCAN_RESOLUTION_100" -> 100
               [] OTHER                              -> 50
  IN (fov * 100) \div res + 1

(***************************************************************************)
(* State.                                                                  *)
(***************************************************************************)
VARIABLES
  sick_lms_map,   \* Keys -> entry: absent, a null pointer, or a SickLMS object
  leaked,         \* SickLMS objects no pointer refers to any more and that were never deleted
  at_exit,        \* mexAtExit(mexExit) has been registered
  phase,          \* "running", "exiting", "exited", "crashed"
  last,           \* the last command: its name and the path it resolved
  result,         \* the message the last command ended with
  calls,          \* the driver calls the last command (or exit iteration) made, in order
  threads,        \* the init invocations that run at the same time, statement by statement
  codec,          \* a frame on its way through the Frame Codec
  output,         \* what the last command printed and returned in plhs[0]
  cli_prog,       \* which program runs: "lms_simple_app" or "lms_set_variant"
  cli_pc,         \* where main() is
  cli_baud,       \* desired_baud
  cli_i,          \* the loop counter i
  cli_sess,       \* the SickLMS object sick_lms
  cli_fast,       \* the attached unit is an LMS Fast
  cli_calls,      \* the driver calls made so far, in order
  cli_T,          \* the attempts of the current loop that timed out
  cli_ok,         \* the number of attempts of the current loop that succeeded
  cli_num_values, \* num_values
  cli_printed,    \* the "Num. Values" lines of the current loop: <<attempt, value>>
  cli_exit,       \* the exit status of main()
  cli_last        \* how the last driver call of main() ended ("none": no call yet)

bridge_vars ==
  <<sick_lms_map, leaked, at_exit, phase, last, result, calls, output, threads, codec>>

cli_vars == <<cli_prog, cli_pc, cli_baud, cli_i, cli_sess, cli_fast, cli_calls, cli_T,
              cli_ok, cli_num_values, cli_printed, cli_exit, cli_last>>

vars == <<sick_lms_map, leaked, at_exit, phase, last, result, calls, output, threads, codec,
          cli_prog, cli_pc, cli_baud, cli_i, cli_sess, cli_fast, cli_calls, cli_T,
          cli_ok, cli_num_values, cli_printed, cli_exit, cli_last>>

(***************************************************************************)
(* std::map operations.                                                    *)
(***************************************************************************)
Size(m) == Cardinality({k \in Keys : m[k].tag # "absent"})

sickInMap(m, p) == m[p].tag # "absent"

\* The key of sick_lms_map.begin(): the smallest key present.
Begin(m) == CHOOSE k \in Keys : m[k].tag # "absent" /\ \A j \in Keys : m[j].tag # "absent" => k <= j

\* sick_lms_map[p]: operator[] inserts a null pointer under a key it does not find.
Subscript(m, p) == IF m[p].tag = "absent" THEN [m EXCEPT ![p] = NullPtr] ELSE m

\* A call record: operation, key of the object, which object of that key
\* within this command ("old": there before the command, "new": created by
\* it), two arguments, and the outcome.
Call(op, p, gen, a, b, out) == <<op, p, gen, a, b, out>>

\* The intermediate state of a handler and what it returns.
St(m, lk, at, cs) == [m |-> m, leaked |-> lk, at_exit |-> at, calls |-> cs]

\* Nothing printed about a session and nothing assigned to plhs[0].
NoOutput == [kind |-> "none"]

RetOut(st, msg, tgt, o) ==
  [m |-> st.m, leaked |-> st.leaked, at_exit |-> st.at_exit, calls |-> st.calls,
   msg |-> msg, target |-> tgt, out |-> o]

Ret(st, msg, tgt) == RetOut(st, msg, tgt, NoOutput)

NoTarget == -1

(***************************************************************************)
(* cleanup: uninitialize and remove a Sick LMS from the map.               *)
(***************************************************************************)
\* cleanup that deletes and erases without calling Uninitialize.
cleanup_noUninitialize(st, p, gen, uo) ==
  LET m1 == Subscript(st.m, p)
  IN IF m1[p].tag # "obj"
       THEN [st EXCEPT !.m = m1]
       ELSE [st EXCEPT !.m = [m1 EXCEPT ![p] = Absent],
                       !.calls = Append(@, Call("delete", p, gen, "", "", "ok"))]

\* cleanup that calls Uninitialize without asking IsInitialized first.
cleanup_alwaysUninitialize(st, p, gen, uo) ==
  LET m1 == Subscript(st.m, p)
      o  == m1[p]
  IN IF o.tag # "obj"
       THEN [st EXCEPT !.m = m1]
       ELSE [st EXCEPT !.m = [m1 EXCEPT ![p] = Absent],
                       !.calls = @ \o <<Call("Uninitialize", p, gen, "", "", uo),
                                        Call("delete", p, gen, "", "", "ok")>>]

\* cleanup that, after the teardown of p, empties the whole map
\* (sick_lms_map.clear() in place of sick_lms_map.erase(sick_dev_path)).
cleanup_clearMap(st, p, gen, uo) ==
  LET m1 == Subscript(st.m, p)
      o  == m1[p]
  IN IF o.tag # "obj"
       THEN [st EXCEPT !.m = m1]
       ELSE LET cs1 == IF o.init
                         THEN Append(st.calls, Call("Uninitialize", p, gen, "", "", uo))
                         ELSE st.calls
                cs2 == Append(cs1, Call("delete", p, gen, "", "", "ok"))
            IN [st EXCEPT !.m = [k \in Keys |-> Absent], !.calls = cs2]

cleanup(st, p, gen, uo) ==
  LET m1 == Subscript(st.m, p)
      o  == m1[p]
  IN IF o.tag # "obj"
       THEN [st EXCEPT !.m = m1]
       ELSE LET cs1 == IF o.init
                         THEN Append(st.calls, Call("Uninitialize", p, gen, "", "", uo))
                         ELSE st.calls
                cs2 == Append(cs1, Call("delete", p, gen, "", "", "ok"))
            IN [st EXCEPT !.m = [m1 EXCEPT ![p] = Absent], !.calls = cs2]

(***************************************************************************)
(* initSick.                                                               *)
(***************************************************************************)
\* sick_lms_map[p] = new SickLMS(p): the pointer that was there is overwritten.
AssignNew(st, p) ==
  LET m1 == Subscript(st.m, p)
  IN [st EXCEPT !.m = [m1 EXCEPT ![p] = NewSickLMS(p)],
                !.leaked = IF m1[p].tag = "obj" THEN @ \cup {m1[p]} ELSE @,
                !.calls = Append(@, Call("new", p, "new", "", "", "ok"))]

\* The previous instance is left alone (and then overwritten).
initSickPrevious_keep(st, p, uo) == st

\* "Check if device is unique": the previous instance under the path is cleaned up.
initSickPrevious(st, p, uo) ==
  IF sickInMap(st.m, p) THEN cleanup(st, p, "old", uo) ELSE st

\* What a successful init prints ("Device initialized! (<baud>)", with
\* SickBaudToString(sick_baud)) and the struct it returns.
initSickOutput(s, sick_baud) ==
  [kind |-> "init", baud |-> sick_baud, path |-> s.path,
   lms_fast |-> DeviceIsFast(s.path), units_mm |-> DrvUnitsMM(s),
   meas_mode |-> DrvGetSickMeasuringMode(s)]

\* The try block and its two handlers, and the output after them.
initSickTry(st, p, sick_baud, io, uo) ==
  LET st2 == AssignNew(st, p)
      st3 == [st2 EXCEPT !.m = [st2.m EXCEPT ![p] = DrvInitialize(st2.m[p], sick_baud, io)],
                         !.calls = Append(@, Call("Initialize", p, "new", sick_baud,
                                                  DrvTried(p, sick_baud, io), io))]
  IN CASE io = "ok" -> RetOut([st3 EXCEPT !.at_exit = TRUE], MsgOk, p,
                              initSickOutput(st3.m[p], sick_baud))
       [] io = "io" -> Ret(cleanup(st3, p, "new", uo), MsgIO, p)
       [] OTHER     -> Ret(cleanup(st3, p, "new", uo), MsgError, p)

\* The converted baud rate is passed on unchecked.
initSickBaud_unchecked(st, p, baud, io, uo) ==
  initSickTry(initSickPrevious(st, p, uo), p, IntToSickBaud(CastToInt(baud)), io, uo)

\* The baud rate is converted and checked after the previous instance was handled.
initSickBaud(st, p, baud, io, uo) ==
  LET st1       == initSickPrevious(st, p, uo)
      sick_baud == IntToSickBaud(CastToInt(baud))
  IN IF sick_baud = SICK_BAUD_UNKNOWN
       THEN Ret(st1, MsgBaud, p)
       ELSE initSickTry(st1, p, sick_baud, io, uo)

initSick(st, nlhs, nrhs, readable, p, baud, io, uo) ==
  CASE nrhs # 3  -> Ret(st, MsgArgsIn, NoTarget)
    [] nrhs = 3 /\ nlhs > 1 -> Ret(st, MsgArgsOut, NoTarget)
    [] nrhs = 3 /\ nlhs <= 1 /\ ~readable -> Ret(st, MsgReadArg, NoTarget)
    [] OTHER ->
         IF Size(st.m) = MAX_NUM_LMS_DEVICES THEN Ret(st, MsgCapacity, p)
         ELSE IF st.m[p].tag = "null" THEN Ret(st, SIGSEGV, p)
         ELSE initSickBaud(st, p, baud, io, uo)

(***************************************************************************)
(* The path a command acts on (clear, variant, grab and info each carry a  *)
(* copy of this code; nDef and nExp are the argument counts without and    *)
(* with a path).                                                           *)
(***************************************************************************)
ResolvePath(m, nrhs, nDef, nExp, readable, arg) ==
  IF Size(m) = 0 THEN [msg |-> MsgNoDevice, path |-> NoTarget]
  ELSE IF nrhs = nDef THEN
         IF Size(m) = 1
           THEN IF m[Begin(m)].tag = "null"
                  THEN [msg |-> SIGSEGV, path |-> NoTarget]
                  ELSE [msg |-> MsgOk, path |-> m[Begin(m)].path]
           ELSE [msg |-> MsgMultiple, path |-> NoTarget]
  ELSE IF nrhs = nExp THEN
         IF ~readable THEN [msg |-> MsgReadArg, path |-> NoTarget]
         ELSE IF ~sickInMap(m, arg) THEN [msg |-> MsgNoPath, path |-> NoTarget]
         ELSE [msg |-> MsgOk, path |-> arg]
  ELSE [msg |-> MsgOk, path |-> EmptyPath]

\* sick_lms_map[p]->IsInitialized(): "" for ok, else the way the command ends.
CheckInitialized(m, p) ==
  LET m1 == Subscript(m, p)
  IN IF m1[p].tag # "obj" THEN SIGSEGV
     ELSE IF ~m1[p].init THEN MsgNotInit
     ELSE MsgOk

(***************************************************************************)
(* clearSick.                                                              *)
(***************************************************************************)
clearSick(st, nlhs, nrhs, readable, arg, uo) ==
  IF nrhs > 2 THEN Ret(st, MsgArgsIn, NoTarget)
  ELSE IF nlhs > 0 THEN Ret(st, MsgArgsOut, NoTarget)
  ELSE LET r == ResolvePath(st.m, nrhs, 1, 2, readable, arg)
       IN IF r.msg # MsgOk THEN Ret(st, r.msg, r.path)
          ELSE LET c   == CheckInitialized(st.m, r.path)
                   st1 == [st EXCEPT !.m = Subscript(st.m, r.path)]
               IN IF c # MsgOk THEN Ret(st1, c, r.path)
                  ELSE Ret(cleanup(st1, r.path, "old", uo), MsgOk, r.path)

(***************************************************************************)
(* setSickVariant.                                                         *)
(***************************************************************************)
\* A single catch-all handler: a config exception cleans up like any other.
setSickVariantTry_catchAll(st, p, a, r, vo, uo) ==
  LET st1 == [st EXCEPT !.m = [st.m EXCEPT ![p] = DrvSetSickVariant(st.m[p], a, r, vo)],
                        !.calls = Append(@, Call("SetSickVariant", p, "old", a, r, vo))]
  IN IF vo = "ok" THEN Ret(st1, MsgOk, p)
     ELSE Ret(cleanup(st1, p, "old", uo), MsgError, p)

\* The try block and its two handlers.
setSickVariantTry(st, p, a, r, vo, uo) ==
  LET st1 == [st EXCEPT !.m = [st.m EXCEPT ![p] = DrvSetSickVariant(st.m[p], a, r, vo)],
                        !.calls = Append(@, Call("SetSickVariant", p, "old", a, r, vo))]
  IN CASE vo = "ok"     -> Ret(st1, MsgOk, p)
       [] vo = "config" -> Ret(st1, MsgConfig, p)
       [] OTHER         -> Ret(cleanup(st1, p, "old", uo), MsgError, p)

\* The same without the LMS Fast check.
setSickVariantArgs_noFastCheck(st, p, nrhs, angle, res, vo, uo) ==
  LET sick_scan_angle      == IntToSickScanAngle(CastToInt(angle))
      sick_scan_resolution == DoubleToSickScanResolution(res)
  IN IF sick_scan_angle = SICK_SCAN_ANGLE_UNKNOWN THEN Ret(st, MsgAngle, p)
     ELSE IF sick_scan_resolution = SICK_SCAN_RESOLUTION_UNKNOWN THEN Ret(st, MsgRes, p)
     ELSE setSickVariantTry(st, p, sick_scan_angle, sick_scan_resolution, vo, uo)

\* From the LMS Fast check on: the model check and the two conversions.
setSickVariantArgs(st, p, nrhs, angle, res, vo, uo) ==
  IF DeviceIsFast(st.m[p].path) THEN Ret(st, MsgFast, p)
  ELSE IF nrhs < 3 THEN Ret(st, SIGSEGV, p)
  ELSE LET sick_scan_angle      == IntToSickScanAngle(CastToInt(angle))
           sick_scan_resolution == DoubleToSickScanResolution(res)
       IN IF sick_scan_angle = SICK_SCAN_ANGLE_UNKNOWN THEN Ret(st, MsgAngle, p)
          ELSE IF sick_scan_resolution = SICK_SCAN_RESOLUTION_UNKNOWN THEN Ret(st, MsgRes, p)
          ELSE setSickVariantTry(st, p, sick_scan_angle, sick_scan_resolution, vo, uo)

setSickVariant(st, nlhs, nrhs, readable, arg, angle, res, vo, uo) ==
  IF nrhs > 4 THEN Ret(st, MsgArgsIn, NoTarget)
  ELSE IF nlhs > 0 THEN Ret(st, MsgArgsOut, NoTarget)
  ELSE LET r == ResolvePath(st.m, nrhs, 3, 4, readable, arg)
       IN IF r.msg # MsgOk THEN Ret(st, r.msg, r.path)
          ELSE LET c   == CheckInitialized(st.m, r.path)
                   st1 == [st EXCEPT !.m = Subscript(st.m, r.path)]
               IN IF c # MsgOk THEN Ret(st1, c, r.path)
                  ELSE setSickVariantArgs(st1, r.path, nrhs, angle, res, vo, uo)

(***************************************************************************)
(* grabSickVals.                                                           *)
(***************************************************************************)
\* The handler reports the error and leaves the session where it is.
grabSickValsTry_keepOnError(st, p, so, uo) ==
  LET op  == IF DeviceIsFast(st.m[p].path) THEN "GetSickScan2" ELSE "GetSickScan"
      st1 == [st EXCEPT !.m = [st.m EXCEPT ![p] = DrvGetSickScan(st.m[p], so)],
                        !.calls = Append(@, Call(op, p, "old", "", "", so))]
  IN IF so = "ok" THEN Ret(st1, MsgOk, p)
     ELSE Ret(st1, MsgError, p)

\* The return struct with the bearings counted from 0 instead of from
\* (180 - scan_fov)/2.
grabSickValsOutput_bearingFromZero(s) ==
  LET num_pri_values == DrvNumValues(s)
      num_sec_values == DrvNumValues(s)
      measuring_mode == DrvGetSickMeasuringMode(s)
      scan_res       == DrvGetSickScanResolution(s)
      scan_fov       == DrvGetSickScanAngle(s)
  IN [kind    |-> "grab",
      res     |-> scan_res,
      fov     |-> scan_fov,
      fields  |-> {"res", "fov", "bearing"} \cup
                  (IF DeviceIsFast(s.path) THEN {"range", "reflect"}
                   ELSE IF measuring_mode = SICK_MS_MODE_REFLECTIVITY THEN {"reflect"}
                   ELSE {"range"}),
      range   |-> IF DeviceIsFast(s.path) THEN num_pri_values
                  ELSE IF measuring_mode = SICK_MS_MODE_REFLECTIVITY THEN 0
                  ELSE num_pri_values,
      reflect |-> IF DeviceIsFast(s.path) THEN num_sec_values
                  ELSE IF measuring_mode = SICK_MS_MODE_REFLECTIVITY THEN num_pri_values
                  ELSE 0,
      bearing |-> [len   |-> num_pri_values,
                   first |-> 0,
                   step  |-> scan_res]]

\* The return struct with the primary values always under range, whatever
\* the measuring mode of a unit that is not an LMS Fast.
grabSickValsOutput_rangeOnly(s) ==
  LET num_pri_values == DrvNumValues(s)
      num_sec_values == DrvNumValues(s)
      scan_res       == DrvGetSickScanResolution(s)
      scan_fov       == DrvGetSickScanAngle(s)
  IN [kind    |-> "grab",
      res     |-> scan_res,
      fov     |-> scan_fov,
      fields  |-> {"res", "fov", "bearing"} \cup
                  (IF DeviceIsFast(s.path) THEN {"range", "reflect"} ELSE {"range"}),
      range   |-> num_pri_values,
      reflect |-> IF DeviceIsFast(s.path) THEN num_sec_values ELSE 0,
      bearing |-> [len   |-> num_pri_values,
                   first |-> ((180 - scan_fov) * 100) \div 2,
                   step  |-> scan_res]]

\* The return struct with every array as long as the buffers the scan is
\* read into, instead of as long as the scan.
grabSickValsOutput_wholeBuffer(s) ==
  LET measuring_mode == DrvGetSickMeasuringMode(s)
      scan_res       == DrvGetSickScanResolution(s)
      scan_fov       == DrvGetSickScanAngle(s)
  IN [kind    |-> "grab",
      res     |-> scan_res,
      fov     |-> scan_fov,
      fields  |-> {"res", "fov", "bearing"} \cup
                  (IF DeviceIsFast(s.path) THEN {"range", "reflect"}
                   ELSE IF measuring_mode = SICK_MS_MODE_REFLECTIVITY THEN {"reflect"}
                   ELSE {"range"}),
      range   |-> IF DeviceIsFast(s.path) THEN SICK_MAX_NUM_MEASUREMENTS
                  ELSE IF measuring_mode = SICK_MS_MODE_REFLECTIVITY THEN 0
                  ELSE SICK_MAX_NUM_MEASUREMENTS,
      reflect |-> IF DeviceIsFast(s.path) THEN SICK_MAX_NUM_MEASUREMENTS
                  ELSE IF measuring_mode = SICK_MS_MODE_REFLECTIVITY
                         THEN SICK_MAX_NUM_MEASUREMENTS
                  ELSE 0,
      bearing |-> [len   |-> SICK_MAX_NUM_MEASUREMENTS,
                   first |-> ((180 - scan_fov) * 100) \div 2,
                   step  |-> scan_res]]

\* The return struct of grab: the fields that are assigned, res and fov (in
\* hundredths of a degree and in degrees), the number of entries of range
\* and of reflect (0 for a field that is not assigned), and the bearings:
\* len entries, entry i (from 0) being first + i * step hundredths of a
\* degree.
grabSickValsOutput(s) ==
  LET num_pri_values == DrvNumValues(s)
      num_sec_values == DrvNumValues(s)
      measuring_mode == DrvGetSickMeasuringMode(s)
      scan_res       == DrvGetSickScanResolution(s)
      scan_fov       == DrvGetSickScanAngle(s)
  IN [kind    |-> "grab",
      res     |-> scan_res,
      fov     |-> scan_fov,
      fields  |-> {"res", "fov", "bearing"} \cup
                  (IF DeviceIsFast(s.path) THEN {"range", "reflect"}
                   ELSE IF measuring_mode = SICK_MS_MODE_REFLECTIVITY THEN {"reflect"}
                   ELSE {"range"}),
      range   |-> IF DeviceIsFast(s.path) THEN num_pri_values
                  ELSE IF measuring_mode = SICK_MS_MODE_REFLECTIVITY THEN 0
                  ELSE num_pri_values,
      reflect |-> IF DeviceIsFast(s.path) THEN num_sec_values
                  ELSE IF measuring_mode = SICK_MS_MODE_REFLECTIVITY THEN num_pri_values
                  ELSE 0,
      bearing |-> [len   |-> num_pri_values,
                   first |-> ((180 - scan_fov) * 100) \div 2,
                   step  |-> scan_res]]

\* The try block and its handler, and the output after them.
grabSickValsTry(st, p, so, uo) ==
  LET op  == IF DeviceIsFast(st.m[p].path) THEN "GetSickScan2" ELSE "GetSickScan"
      st1 == [st EXCEPT !.m = [st.m EXCEPT ![p] = DrvGetSickScan(st.m[p], so)],
                        !.calls = Append(@, Call(op, p, "old", "", "", so))]
  IN IF so = "ok" THEN RetOut(st1, MsgOk, p, grabSickValsOutput(st1.m[p]))
     ELSE Ret(cleanup(st1, p, "old", uo), MsgError, p)

\* The two checks of the output arguments read sick_lms_map[sick_dev_path]
\* while sick_dev_path is still the empty string.
grabSickValsOutArgs(m, nlhs) ==
  IF nlhs > 1 THEN Subscript(m, EmptyPath) ELSE m

grabSickVals(st, nlhs, nrhs, readable, arg, so, uo) ==
  IF nrhs > 2 THEN Ret(st, MsgArgsIn, NoTarget)
  ELSE LET st0 == [st EXCEPT !.m = grabSickValsOutArgs(st.m, nlhs)]
       IN IF nlhs > 1 /\ st0.m[EmptyPath].tag # "obj" THEN Ret(st0, SIGSEGV, EmptyPath)
          ELSE IF nlhs > 1 /\ DeviceIsFast(st0.m[EmptyPath].path) THEN Ret(st0, MsgArgsOut, NoTarget)
          ELSE LET r == ResolvePath(st0.m, nrhs, 1, 2, readable, arg)
               IN IF r.msg # MsgOk THEN Ret(st0, r.msg, r.path)
                  ELSE LET c   == CheckInitialized(st0.m, r.path)
                           st1 == [st0 EXCEPT !.m = Subscript(st0.m, r.path)]
                       IN IF c # MsgOk THEN Ret(st1, c, r.path)
                          ELSE grabSickValsTry(st1, r.path, so, uo)

(***************************************************************************)
(* printSickInfo.                                                          *)
(***************************************************************************)
printSickInfo(st, nlhs, nrhs, readable, arg) ==
  IF nrhs > 2 THEN Ret(st, MsgArgsIn, NoTarget)
  ELSE IF nlhs > 0 THEN Ret(st, MsgArgsOut, NoTarget)
  ELSE LET r == ResolvePath(st.m, nrhs, 1, 2, readable, arg)
       IN IF r.msg # MsgOk THEN Ret(st, r.msg, r.path)
          ELSE LET c   == CheckInitialized(st.m, r.path)
                   st1 == [st EXCEPT !.m = Subscript(st.m, r.path)]
               IN IF c # MsgOk THEN Ret(st1, c, r.path)
                  ELSE Ret([st1 EXCEPT !.calls =
                              @ \o <<Call("GetSickStatusAsString", r.path, "old", "", "", "ok"),
                                     Call("GetSickSoftwareVersionAsString", r.path, "old", "", "", "ok")>>],
                           MsgOk, r.path)

(***************************************************************************)
(* mexFunction: the dispatcher.  It returns the name of the handler the    *)
(* command goes to, or the message it ends with itself.                    *)
(***************************************************************************)
CmdStrings == {"init", "clear", "variant", "grab", "info", "INFO", "reset"}

\* strcasecmp(cmd_buffer, name) == 0
strcasecmp(s, name) ==
  CASE s = "INFO" -> name = "info"
    [] OTHER      -> name = s

mexFunction(nrhs, cmdReadable, cmd) ==
  IF nrhs = 0 THEN MsgUsage
  ELSE IF ~cmdReadable THEN MsgReadCmd
  ELSE IF strcasecmp(cmd, "init") THEN "init"
  ELSE IF strcasecmp(cmd, "clear") THEN "clear"
  ELSE IF strcasecmp(cmd, "variant") THEN "variant"
  ELSE IF strcasecmp(cmd, "grab") THEN "grab"
  ELSE IF strcasecmp(cmd, "info") THEN "info"
  ELSE MsgUnknownCmd

(***************************************************************************)
(* The bridge's initial state and steps.                                   *)
(***************************************************************************)
CliIdle ==
  /\ cli_prog = "none"
  /\ cli_pc = "idle"
  /\ cli_baud = "SICK_BAUD_38400"
  /\ cli_i = 0
  /\ cli_sess = NewSickLMS(1)
  /\ cli_fast = FALSE
  /\ cli_calls = <<>>
  /\ cli_T = {}
  /\ cli_ok = 0
  /\ cli_num_values = 0
  /\ cli_printed = {}
  /\ cli_exit = 0
  /\ cli_last = "none"

\* The host calls the MEX function from one thread: one invocation at a
\* time, each running to its end.
Threads == {1, 2}

NoThreads ==
  [t \in Threads |-> [pc |-> "idle", path |-> NoTarget, msg |-> MsgOk, seen |-> {}]]

\* No frame is on its way.
NoFrame ==
  [stage |-> "idle", alg |-> "none", payload |-> <<>>, frame |-> <<>>,
   mutated |-> 0, reply |-> [err |-> "none", payload |-> <<>>]]

BridgeIdle ==
  /\ threads = NoThreads
  /\ codec = NoFrame
  /\ sick_lms_map = [k \in Keys |-> Absent]
  /\ leaked = {}
  /\ at_exit = FALSE
  /\ phase = "running"
  /\ last = [cmd |-> "none", target |-> NoTarget]
  /\ result = MsgOk
  /\ calls = <<>>
  /\ output = NoOutput

Init == BridgeIdle /\ CliIdle

\* The handlers start from the globals, with no driver call made yet.
Globals == St(sick_lms_map, leaked, at_exit, <<>>)

\* A command returns (or mexErrMsgTxt leaves the MEX function).  A command
\* that dereferenced a null pointer raised SIGSEGV: the host either dies or
\* recovers to its prompt, with the globals as the command left them.
Finish(r, name) ==
  /\ sick_lms_map' = r.m
  /\ leaked' = r.leaked
  /\ at_exit' = r.at_exit
  /\ calls' = r.calls
  /\ output' = r.out
  /\ result' = r.msg
  /\ last' = [cmd |-> name, target |-> r.target]
  /\ phase' \in (IF r.msg = SIGSEGV THEN {"running", "crashed"} ELSE {"running"})
  /\ UNCHANGED <<cli_vars, codec>>
  /\ UNCHANGED threads

\* Arguments and driver outcomes a handler does not get to read are not
\* enumerated: One(c, S, d) is S when c holds and the single value d otherwise.
One(c, S, d) == IF c THEN S ELSE {d}

\* The paths worth passing to a command that looks its path up: the keys of
\* the map and one path that is not a key (the handlers treat every such
\* path alike: sickInMap is false and the command ends there).
PathArgs(m) ==
  LET absent == {k \in Keys : m[k].tag = "absent"}
  IN (Keys \ absent) \cup {k \in absent : \A j \in absent : k <= j}

\* The command strings the dispatcher sends to handler h.
CmdsOf(h) == {c \in CmdStrings : mexFunction(1, TRUE, c) = h}

CmdInvalid ==
  /\ phase = "running"
  /\ \E nrhs \in 0..1 :
     \E cmdReadable \in One(nrhs > 0, BOOLEAN, TRUE) :
     \E cmd \in One(nrhs > 0 /\ cmdReadable, CmdStrings, "reset") :
       LET h == mexFunction(nrhs, cmdReadable, cmd)
       IN /\ h \in {MsgUsage, MsgReadCmd, MsgUnknownCmd}
          /\ Finish(Ret(Globals, h, NoTarget), "invalid")

CmdInit ==
  /\ phase = "running"
  /\ \E cmd \in CmdsOf("init"), nrhs \in 1..MaxNrhs :
     \E nlhs \in One(nrhs = 3, 0..MaxNlhs, 0) :
     \E readable \in One(nrhs = 3 /\ nlhs <= 1, BOOLEAN, TRUE) :
     \E p \in One(nrhs = 3 /\ nlhs <= 1 /\ readable, Keys, EmptyPath) :
     \E admitted \in {nrhs = 3 /\ nlhs <= 1 /\ readable
                         /\ Size(sick_lms_map) # MAX_NUM_LMS_DEVICES} :
     \E baud \in One(admitted, BaudArgs, 384000) :
     \E io \in One(admitted /\ IntToSickBaud(CastToInt(baud)) # SICK_BAUD_UNKNOWN,
                   InitOutcomes(p), "io") :
     \E uo \in One(admitted /\ sick_lms_map[p].tag = "obj", UninitOutcomes, "ok") :
       Finish(initSick(Globals, nlhs, nrhs, readable, p, baud, io, uo), "init")

CmdClear ==
  /\ phase = "running"
  /\ \E cmd \in CmdsOf("clear"), nrhs \in 1..MaxNrhs :
     \E nlhs \in One(nrhs <= 2, 0..MaxNlhs, 0) :
     \E readable \in One(nrhs = 2 /\ nlhs = 0, BOOLEAN, TRUE) :
     \E arg \in One(nrhs = 2 /\ nlhs = 0 /\ readable, PathArgs(sick_lms_map), EmptyPath) :
     \E uo \in One(ResolvePath(sick_lms_map, nrhs, 1, 2, readable, arg).msg = MsgOk /\ nlhs = 0,
                   UninitOutcomes, "ok") :
       Finish(clearSick(Globals, nlhs, nrhs, readable, arg, uo), "clear")

CmdVariant ==
  /\ phase = "running"
  /\ \E cmd \in CmdsOf("variant"), nrhs \in 1..MaxNrhs :
     \E nlhs \in One(nrhs <= 4, 0..MaxNlhs, 0) :
     \E readable \in One(nrhs = 4 /\ nlhs = 0, BOOLEAN, TRUE) :
     \E arg \in One(nrhs = 4 /\ nlhs = 0 /\ readable, PathArgs(sick_lms_map), EmptyPath) :
     \E p \in {ResolvePath(sick_lms_map, nrhs, 3, 4, readable, arg).path} :
     \E reads \in {nlhs = 0 /\ nrhs \in {3, 4} /\ p \in Keys /\ sick_lms_map[p].tag = "obj"
                      /\ ~DeviceIsFast(p)} :
     \E angle \in One(reads, AngleArgs, 1805) :
     \E res \in One(reads /\ IntToSickScanAngle(CastToInt(angle)) # SICK_SCAN_ANGLE_UNKNOWN,
                    ResArgs, 50) :
     \E calling \in {reads
                        /\ IntToSickScanAngle(CastToInt(angle)) # SICK_SCAN_ANGLE_UNKNOWN
                        /\ DoubleToSickScanResolution(res) # SICK_SCAN_RESOLUTION_UNKNOWN} :
     \E vo \in One(calling, VariantOutcomes(p), "io") :
     \E uo \in One(calling /\ vo = "timeout", UninitOutcomes, "ok") :
       Finish(setSickVariant(Globals, nlhs, nrhs, readable, arg, angle, res, vo, uo),
                 "variant")

CmdGrab ==
  /\ phase = "running"
  /\ \E cmd \in CmdsOf("grab"), nrhs \in 1..MaxNrhs :
     \E nlhs \in One(nrhs <= 2, 0..MaxNlhs, 0) :
     \E readable \in One(nrhs = 2 /\ nlhs <= 1, BOOLEAN, TRUE) :
     \E arg \in One(nrhs = 2 /\ nlhs <= 1 /\ readable, PathArgs(sick_lms_map), EmptyPath) :
     \E so \in One(ResolvePath(sick_lms_map, nrhs, 1, 2, readable, arg).msg = MsgOk /\ nlhs <= 1,
                   ScanOutcomes, "ok") :
     \E uo \in One(so = "timeout", UninitOutcomes, "ok") :
       Finish(grabSickVals(Globals, nlhs, nrhs, readable, arg, so, uo), "grab")

CmdInfo ==
  /\ phase = "running"
  /\ \E cmd \in CmdsOf("info"), nrhs \in 1..MaxNrhs :
     \E nlhs \in One(nrhs <= 2, 0..MaxNlhs, 0) :
     \E readable \in One(nrhs = 2 /\ nlhs = 0, BOOLEAN, TRUE) :
     \E arg \in One(nrhs = 2 /\ nlhs = 0 /\ readable, PathArgs(sick_lms_map), EmptyPath) :
       Finish(printSickInfo(Globals, nlhs, nrhs, readable, arg), "info")

(***************************************************************************)
(* The host exits.  mexExit runs if an init registered it; each step of    *)
(* MexExitStep is one iteration of its while loop.                         *)
(***************************************************************************)
HostExit ==
  /\ phase = "running"
  /\ phase' = IF at_exit THEN "exiting" ELSE "exited"
  /\ last' = [cmd |-> "exit", target |-> NoTarget]
  /\ result' = MsgOk
  /\ calls' = <<>>
  /\ output' = NoOutput
  /\ UNCHANGED <<sick_lms_map, leaked, at_exit>>
  /\ UNCHANGED <<cli_vars, codec>>
  /\ UNCHANGED threads

\* One iteration: cleanup(sick_lms_map.begin()->first).
mexExit(st, uo) == cleanup(st, Begin(st.m), "old", uo)

MexExitStep ==
  /\ phase = "exiting"
  /\ IF Size(sick_lms_map) = 0
       THEN /\ phase' = "exited"
            /\ last' = [cmd |-> "mexExit", target |-> NoTarget]
            /\ calls' = <<>>
            /\ UNCHANGED <<sick_lms_map, leaked>>
       ELSE \E uo \in UninitOutcomes :
              LET st == mexExit(Globals, uo)
              IN /\ sick_lms_map' = st.m
                 /\ leaked' = st.leaked
                 /\ calls' = st.calls
                 /\ last' = [cmd |-> "mexExit", target |-> Begin(sick_lms_map)]
                 /\ phase' = "exiting"
  /\ result' = MsgOk
  /\ output' = NoOutput
  /\ UNCHANGED at_exit
  /\ UNCHANGED <<cli_vars, codec>>
  /\ UNCHANGED threads

Next ==
  \/ CmdInvalid
  \/ CmdInit
  \/ CmdClear
  \/ CmdVariant
  \/ CmdGrab
  \/ CmdInfo
  \/ HostExit
  \/ MexExitStep

Spec == Init /\ [][Next]_vars

(***************************************************************************)
(* The command line programs lms_simple_app and lms_set_variant.           *)
(***************************************************************************)
\* Largest argc tried.
MaxArgc == 4

Argv1Strings == {"/dev/ttyUSB0", "--help", "--HELP"}

Argv2Strings == {"9600", "38400", "115200"}

\* strcasecmp(argv[1], "--help") == 0
IsHelp(s) == s \in {"--help", "--HELP"}

\* An LMS Fast rejects the variant request (nothing is transmitted).
CliVariantOutcomes == IF cli_fast THEN {"config"} ELSE {"ok", "config", "timeout", "io"}

CliCall(op, a, b) == <<op, a, b>>

InitCli ==
  /\ BridgeIdle
  /\ cli_prog \in {"lms_simple_app", "lms_set_variant"}
  /\ cli_pc = "start"
  /\ cli_baud = "SICK_BAUD_38400"
  /\ cli_i = 0
  /\ cli_sess = NewSickLMS(1)
  /\ cli_fast \in BOOLEAN
  /\ cli_calls = <<>>
  /\ cli_T = {}
  /\ cli_ok = 0
  /\ cli_num_values = 0
  /\ cli_printed = {}
  /\ cli_exit = 0
  /\ cli_last = "none"

\* return -1 from main(), or the outer catch(...).
\* The outer handler returning 0 instead of -1.
CliFail_returnZero ==
  /\ cli_pc' = "done"
  /\ cli_exit' = 0

CliFail ==
  /\ cli_pc' = "done"
  /\ cli_exit' = -1

\* The argument checks both programs start with; "" when they pass.
mainArgs(argc, argv1, argv2) ==
  IF (argc # 2 /\ argc # 3) \/ (argc = 2 /\ IsHelp(argv1)) THEN "usage"
  ELSE IF argc = 3 /\ StringToSickBaud(argv2) = SICK_BAUD_UNKNOWN THEN "baud"
  ELSE "ok"

CliStart ==
  /\ cli_pc = "start"
  /\ \E argc \in 1..MaxArgc :
     \E argv1 \in One(argc >= 2, Argv1Strings, "--help") :
     \E argv2 \in One(argc = 3, Argv2Strings, "38400") :
       IF mainArgs(argc, argv1, argv2) = "ok"
         THEN /\ cli_pc' = "init"
              /\ cli_baud' = IF argc = 3 THEN StringToSickBaud(argv2) ELSE cli_baud
              /\ UNCHANGED cli_exit
         ELSE /\ CliFail
              /\ UNCHANGED cli_baud
  /\ UNCHANGED <<cli_prog, cli_i, cli_sess, cli_fast, cli_calls, cli_T, cli_ok,
                 cli_num_values, cli_printed, cli_last>>
  /\ UNCHANGED bridge_vars

\* sick_lms.Initialize(desired_baud)
CliInitialize ==
  /\ cli_pc = "init"
  /\ \E io \in {"ok", "io", "timeout"} :
       /\ cli_sess' = DrvInitialize(cli_sess, cli_baud, io)
       /\ cli_last' = io
       /\ IF io = "ok"
            THEN /\ cli_pc' = IF cli_prog = "lms_simple_app" THEN "loop" ELSE "variant1"
                 /\ UNCHANGED cli_exit
            ELSE CliFail
  /\ cli_calls' = Append(cli_calls, CliCall("Initialize", cli_baud, ""))
  /\ UNCHANGED <<cli_prog, cli_baud, cli_i, cli_fast, cli_T, cli_ok, cli_num_values,
                 cli_printed>>
  /\ UNCHANGED bridge_vars

\* The variant each SetSickVariant call of lms_set_variant asks for.
mainVariant(pc) ==
  IF pc = "variant1"
    THEN <<"SICK_SCAN_ANGLE_100", "SICK_SCAN_RESOLUTION_25">>
    ELSE <<"SICK_SCAN_ANGLE_180", "SICK_SCAN_RESOLUTION_50">>

\* sick_lms.SetSickVariant(...), followed by the loop's i = 0
CliSetVariant ==
  /\ cli_pc \in {"variant1", "variant2"}
  /\ \E vo \in CliVariantOutcomes :
       /\ cli_sess' = DrvSetSickVariant(cli_sess, mainVariant(cli_pc)[1], mainVariant(cli_pc)[2], vo)
       /\ cli_last' = vo
       /\ cli_calls' = Append(cli_calls,
                              CliCall("SetSickVariant", mainVariant(cli_pc)[1], mainVariant(cli_pc)[2]))
       /\ IF vo = "ok"
            THEN /\ cli_pc' = IF cli_pc = "variant1" THEN "loop1" ELSE "loop2"
                 /\ cli_i' = 0
                 /\ cli_T' = {}
                 /\ cli_ok' = 0
                 /\ cli_printed' = {}
                 /\ UNCHANGED cli_exit
            ELSE /\ CliFail
                 /\ UNCHANGED <<cli_i, cli_T, cli_ok, cli_printed>>
  /\ UNCHANGED <<cli_prog, cli_baud, cli_fast, cli_num_values>>
  /\ UNCHANGED bridge_vars

\* Where main() goes when a loop is over.
mainAfterLoop(pc) == IF pc = "loop1" THEN "variant2" ELSE "uninit"

\* The iteration with the "Num. Values" line after the try block instead of
\* inside it: num_values is printed whatever GetSickScan did.
mainScan_printAfterTry(s, i, num_values, printed, T, ok, so) ==
  LET s1 == DrvGetSickScan(s, so)
      n  == IF so = "ok" THEN DrvNumValues(s1) ELSE num_values
  IN [sess |-> s1, num_values |-> n, printed |-> printed \cup {<<i, n>>},
      T |-> IF so = "timeout" THEN T \cup {i} ELSE T,
      ok |-> IF so = "ok" THEN ok + 1 ELSE ok,
      rethrown |-> so \notin {"ok", "timeout"}]

\* The iteration with a catch(...) that swallows the exception instead of
\* rethrowing it: the loop goes on whatever GetSickScan did.
mainScan_swallowAll(s, i, num_values, printed, T, ok, so) ==
  LET s1 == DrvGetSickScan(s, so)
  IN CASE so = "ok" ->
            [sess |-> s1, num_values |-> DrvNumValues(s1),
             printed |-> printed \cup {<<i, DrvNumValues(s1)>>},
             T |-> T, ok |-> ok + 1, rethrown |-> FALSE]
       [] so = "timeout" ->
            [sess |-> s1, num_values |-> num_values, printed |-> printed,
             T |-> T \cup {i}, ok |-> ok, rethrown |-> FALSE]
       [] OTHER ->
            [sess |-> s1, num_values |-> num_values, printed |-> printed,
             T |-> T, ok |-> ok, rethrown |-> FALSE]

\* One iteration of an acquisition loop: the inner try block and its
\* handlers.  It returns what the iteration leaves behind.
mainScan(s, i, num_values, printed, T, ok, so) ==
  LET s1 == DrvGetSickScan(s, so)
  IN CASE so = "ok" ->
            [sess |-> s1, num_values |-> DrvNumValues(s1),
             printed |-> printed \cup {<<i, DrvNumValues(s1)>>},
             T |-> T, ok |-> ok + 1, rethrown |-> FALSE]
       [] so = "timeout" ->
            [sess |-> s1, num_values |-> num_values, printed |-> printed,
             T |-> T \cup {i}, ok |-> ok, rethrown |-> FALSE]
       [] OTHER ->
            [sess |-> s1, num_values |-> num_values, printed |-> printed,
             T |-> T, ok |-> ok, rethrown |-> TRUE]

CliScan ==
  /\ cli_pc \in {"loop", "loop1", "loop2"}
  /\ cli_i < NUM_SCANS
  /\ \E so \in ScanOutcomes :
       LET r == mainScan(cli_sess, cli_i, cli_num_values, cli_printed, cli_T, cli_ok, so)
       IN /\ cli_sess' = r.sess
          /\ cli_last' = so
          /\ cli_num_values' = r.num_values
          /\ cli_printed' = r.printed
          /\ cli_T' = r.T
          /\ cli_ok' = r.ok
          /\ IF r.rethrown
               THEN /\ CliFail
                    /\ UNCHANGED cli_i
               ELSE /\ cli_i' = cli_i + 1
                    /\ cli_pc' = IF cli_i + 1 < NUM_SCANS THEN cli_pc ELSE mainAfterLoop(cli_pc)
                    /\ UNCHANGED cli_exit
  /\ cli_calls' = Append(cli_calls, CliCall("GetSickScan", "", ""))
  /\ UNCHANGED <<cli_prog, cli_baud, cli_fast>>
  /\ UNCHANGED bridge_vars

\* sick_lms.Uninitialize(), then "Done!!!" and return 0
CliUninitialize ==
  /\ cli_pc = "uninit"
  /\ \E uo \in UninitOutcomes :
       /\ cli_sess' = DrvUninitialize(cli_sess, uo)
       /\ cli_last' = uo
       /\ cli_pc' = "done"
       /\ cli_exit' = IF uo = "ok" THEN 0 ELSE -1
  /\ cli_calls' = Append(cli_calls, CliCall("Uninitialize", "", ""))
  /\ UNCHANGED <<cli_prog, cli_baud, cli_i, cli_fast, cli_T, cli_ok, cli_num_values,
                 cli_printed>>
  /\ UNCHANGED bridge_vars

NextCli ==
  \/ CliStart
  \/ CliInitialize
  \/ CliSetVariant
  \/ CliScan
  \/ CliUninitialize

SpecCli == InitCli /\ [][NextCli]_vars

(***************************************************************************)
(* Both kinds of run in one specification: the bridge inside its host, or  *)
(* one of the command line programs.                                       *)
(***************************************************************************)
InitAll == Init \/ InitCli

NextAll ==
  \/ cli_prog = "none" /\ Next
  \/ cli_prog # "none" /\ NextCli

SpecAll == InitAll /\ [][NextAll]_vars

(***************************************************************************)
(* Two init invocations for different paths whose statements interleave.   *)
(* sick_lms_map is a plain std::map and initSick takes no lock, so every   *)
(* interleaving of the statements is a run, and two unsynchronised writes  *)
(* to the map are a data race.                                             *)
(***************************************************************************)
\* A session as a successful init leaves it.
ReadySession(p) == DrvInitialize(NewSickLMS(p), DeviceBaud(p), "ok")

KeysOf(m) == {k \in Keys : m[k].tag # "absent"}

InitConc ==
  /\ CliIdle
  /\ \E R \in SUBSET (Keys \ {EmptyPath}) :
       /\ Cardinality(R) <= MAX_NUM_LMS_DEVICES
       /\ sick_lms_map = [k \in Keys |-> IF k \in R THEN ReadySession(k) ELSE Absent]
       /\ at_exit = (R # {})
  /\ \E p1, p2 \in Keys \ {EmptyPath} :
       /\ p1 # p2
       /\ threads = [t \in Threads |->
                       [pc |-> "capacity", path |-> IF t = 1 THEN p1 ELSE p2,
                        msg |-> MsgOk, seen |-> {}]]
  /\ leaked = {}
  /\ phase = "running"
  /\ last = [cmd |-> "none", target |-> NoTarget]
  /\ result = MsgOk
  /\ calls = <<>>
  /\ output = NoOutput
  /\ codec = NoFrame

\* A thread moves on (or ends with msg).
Goto(t, pc, msg) == threads' = [threads EXCEPT ![t].pc = pc, ![t].msg = msg]

\* if(sick_lms_map.size() == MAX_NUM_LMS_DEVICES) mexErrMsgTxt(...)
ThreadCapacity(t) ==
  /\ phase = "running"
  /\ threads[t].pc = "capacity"
  /\ IF Size(sick_lms_map) = MAX_NUM_LMS_DEVICES
       THEN Goto(t, "done", MsgCapacity)
       ELSE Goto(t, "previous", MsgOk)
  /\ UNCHANGED <<sick_lms_map, leaked, at_exit, phase, last, result, calls, output>>
  /\ UNCHANGED <<cli_vars, codec>>

\* if(sickInMap(sick_dev_path)) cleanup(sick_dev_path)
ThreadPrevious(t) ==
  /\ phase = "running"
  /\ threads[t].pc = "previous"
  /\ \E uo \in One(sickInMap(sick_lms_map, threads[t].path), UninitOutcomes, "ok") :
       LET st == initSickPrevious(St(sick_lms_map, leaked, at_exit, calls),
                                  threads[t].path, uo)
       IN /\ sick_lms_map' = st.m
          /\ leaked' = st.leaked
          /\ calls' = st.calls
  /\ Goto(t, "new", MsgOk)
  /\ UNCHANGED <<at_exit, phase, last, result, output>>
  /\ UNCHANGED <<cli_vars, codec>>

\* sick_lms_map[sick_dev_path] = ..., first half: operator[] walks the tree
\* to the place of the key.
ThreadFind(t) ==
  /\ phase = "running"
  /\ threads[t].pc = "new"
  /\ threads' = [threads EXCEPT ![t].pc = "link", ![t].seen = KeysOf(sick_lms_map)]
  /\ UNCHANGED <<sick_lms_map, leaked, at_exit, phase, last, result, calls, output>>
  /\ UNCHANGED <<cli_vars, codec>>

\* What linking the node does when the tree was written since the walk: the
\* node goes in beside the others, or it goes where a node linked in the
\* meantime hangs and that node drops out of the tree, or the rebalancing
\* follows a stale pointer and faults.
LinkOutcomes(m, seen) ==
  IF KeysOf(m) = seen THEN {"linked"} ELSE {"linked", "lost", "fault"}

\* sick_lms_map[sick_dev_path] = new SickLMS(sick_dev_path), second half: the
\* node is linked in and the pointer assigned.
ThreadLink(t) ==
  /\ phase = "running"
  /\ threads[t].pc = "link"
  /\ \E lo \in LinkOutcomes(sick_lms_map, threads[t].seen) :
       LET p    == threads[t].path
           st   == AssignNew(St(sick_lms_map, leaked, at_exit, calls), p)
           gone == (KeysOf(sick_lms_map) \ threads[t].seen) \ {p}
       IN CASE lo = "linked" ->
                 /\ sick_lms_map' = st.m
                 /\ leaked' = st.leaked
                 /\ calls' = st.calls
                 /\ phase' = phase
                 /\ Goto(t, "initialize", MsgOk)
            [] lo = "lost" ->
                 /\ sick_lms_map' = [k \in Keys |-> IF k \in gone THEN Absent ELSE st.m[k]]
                 /\ leaked' = st.leaked \cup {st.m[k] : k \in {g \in gone : st.m[g].tag = "obj"}}
                 /\ calls' = st.calls
                 /\ phase' = phase
                 /\ Goto(t, "initialize", MsgOk)
            [] OTHER ->
                 /\ phase' = "crashed"
                 /\ Goto(t, "done", SIGSEGV)
                 /\ UNCHANGED <<sick_lms_map, leaked, calls>>
  /\ UNCHANGED <<at_exit, last, result, output>>
  /\ UNCHANGED <<cli_vars, codec>>

\* sick_lms_map[sick_dev_path]->Initialize(sick_baud) and the handlers of the
\* try block; the invocation asked for 38400 baud.
ThreadInitialize(t) ==
  /\ phase = "running"
  /\ threads[t].pc = "initialize"
  /\ LET p  == threads[t].path
         m1 == Subscript(sick_lms_map, p)
     IN IF m1[p].tag # "obj"
          THEN /\ sick_lms_map' = m1
               /\ phase' \in {"running", "crashed"}
               /\ Goto(t, "done", SIGSEGV)
               /\ UNCHANGED <<leaked, at_exit, calls>>
          ELSE \E io \in InitOutcomes(p) :
               \E uo \in One(io # "ok", UninitOutcomes, "ok") :
                 LET sick_baud == "SICK_BAUD_38400"
                     st3 == St([m1 EXCEPT ![p] = DrvInitialize(m1[p], sick_baud, io)],
                               leaked, at_exit,
                               Append(calls, Call("Initialize", p, "new", sick_baud,
                                                  DrvTried(p, sick_baud, io), io)))
                     st4 == IF io = "ok" THEN [st3 EXCEPT !.at_exit = TRUE]
                            ELSE cleanup(st3, p, "new", uo)
                 IN /\ sick_lms_map' = st4.m
                    /\ leaked' = st4.leaked
                    /\ at_exit' = st4.at_exit
                    /\ calls' = st4.calls
                    /\ phase' = phase
                    /\ Goto(t, "done", CASE io = "ok" -> MsgOk [] io = "io" -> MsgIO
                                          [] OTHER -> MsgError)
  /\ UNCHANGED <<last, result, output>>
  /\ UNCHANGED <<cli_vars, codec>>

NextConc ==
  \E t \in Threads :
    \/ ThreadCapacity(t)
    \/ ThreadPrevious(t)
    \/ ThreadFind(t)
    \/ ThreadLink(t)
    \/ ThreadInitialize(t)

SpecConc == InitConc /\ [][NextConc]_vars

(***************************************************************************)
(* The Frame Codec of the driver: a frame is the start marker, the length  *)
(* of the payload, the payload and a trailing 16-bit checksum over length  *)
(* and payload, low byte first.  The checksum is taken in both forms the   *)
(* protocol description is said to allow: the sum of the bytes, and the    *)
(* CRC-16 of the device family (generator 0x8005).                         *)
(***************************************************************************)
MaxPayload == 2

Byte == 0..255

\* The payload bytes commands are built from.
PayloadBytes == {0, 1, 128, 255}

STX == 2

ChecksumAlgorithms == {"additive", "crc16"}

RECURSIVE Xor(_, _)
Xor(a, b) ==
  IF a = 0 THEN b
  ELSE IF b = 0 THEN a
  ELSE ((a + b) % 2) + 2 * Xor(a \div 2, b \div 2)

\* One byte into the CRC: the register is shifted (and reduced by the
\* generator when its top bit falls out), then the byte and its predecessor
\* are folded in.
CrcStep(crc, prev, cur) ==
  LET shifted == IF crc >= 32768 THEN Xor((crc % 32768) * 2, 32773) ELSE crc * 2
  IN Xor(shifted, cur + 256 * prev)

RECURSIVE Crc16(_, _, _, _)
Crc16(bytes, i, crc, prev) ==
  IF i > Len(bytes) THEN crc
  ELSE Crc16(bytes, i + 1, CrcStep(crc, prev, bytes[i]), bytes[i])

RECURSIVE Sum(_, _)
Sum(bytes, i) == IF i > Len(bytes) THEN 0 ELSE bytes[i] + Sum(bytes, i + 1)

\* The sum of the bytes reduced modulo 255 (a one's-complement sum), to
\* which a byte of 0 and a byte of 255 are the same.
Checksum_mod255(alg, bytes) == Sum(bytes, 1) % 255

Checksum(alg, bytes) ==
  IF alg = "additive" THEN Sum(bytes, 1) % 65536 ELSE Crc16(bytes, 1, 0, 0)

Encode(alg, payload) ==
  LET ck == Checksum(alg, <<Len(payload)>> \o payload)
  IN <<STX, Len(payload)>> \o payload \o <<ck % 256, ck \div 256>>

CorruptFrame == [err |-> "corrupt-frame", payload |-> <<>>]

\* The start marker, the declared length, that many payload bytes and the
\* checksum, which is validated before the payload is handed on.
Decode(alg, frame) ==
  IF Len(frame) < 4 \/ frame[1] # STX THEN CorruptFrame
  ELSE IF frame[2] > MaxPayload \/ Len(frame) # frame[2] + 4 THEN CorruptFrame
  ELSE LET len     == frame[2]
           payload == SubSeq(frame, 3, 2 + len)
           ck      == frame[3 + len] + 256 * frame[4 + len]
       IN IF Checksum(alg, <<len>> \o payload) # ck
            THEN CorruptFrame
            ELSE [err |-> "none", payload |-> payload]

\* The payloads of up to MaxPayload bytes.
Payloads == UNION {[1..n -> PayloadBytes] : n \in 1..MaxPayload}

\* The positions of the payload and of the checksum in a frame.
PayloadOrChecksum(frame) == 3..Len(frame)

CodecEncode ==
  /\ codec.stage = "idle"
  /\ \E alg \in ChecksumAlgorithms, payload \in Payloads :
       codec' = [NoFrame EXCEPT !.stage = "encoded", !.alg = alg, !.payload = payload,
                                !.frame = Encode(alg, payload)]
  /\ UNCHANGED <<sick_lms_map, leaked, at_exit, phase, last, result, calls, output, threads>>
  /\ UNCHANGED cli_vars

\* One byte of the payload or of the checksum changes on the wire.
CodecCorrupt ==
  /\ codec.stage = "encoded"
  /\ \E i \in PayloadOrChecksum(codec.frame) :
     \E v \in Byte \ {codec.frame[i]} :
       codec' = [codec EXCEPT !.stage = "received", !.mutated = i, !.frame[i] = v]
  /\ UNCHANGED <<sick_lms_map, leaked, at_exit, phase, last, result, calls, output, threads>>
  /\ UNCHANGED cli_vars

\* The frame arrives as it was sent.
CodecDeliver ==
  /\ codec.stage = "encoded"
  /\ codec' = [codec EXCEPT !.stage = "received"]
  /\ UNCHANGED <<sick_lms_map, leaked, at_exit, phase, last, result, calls, output, threads>>
  /\ UNCHANGED cli_vars

CodecDecode ==
  /\ codec.stage = "received"
  /\ codec' = [codec EXCEPT !.stage = "decoded", !.reply = Decode(codec.alg, codec.frame)]
  /\ UNCHANGED <<sick_lms_map, leaked, at_exit, phase, last, result, calls, output, threads>>
  /\ UNCHANGED cli_vars

NextCodec ==
  \/ CodecEncode
  \/ CodecCorrupt
  \/ CodecDeliver
  \/ CodecDecode

SpecCodec == Init /\ [][NextCodec]_vars

(***************************************************************************)
(* What the properties read off the state.                                 *)
(***************************************************************************)
\* The positions in cs of the calls of op on the object gen of key p.
CallsAt(cs, op, p, gen) ==
  {i \in 1..Len(cs) : cs[i][1] = op /\ cs[i][2] = p /\ cs[i][3] = gen}

\* The positions in cs of the calls on the object gen of key p that ended
\* with a fatal I/O error (the driver has disconnected the session itself).
FatalAt(cs, p, gen) ==
  {i \in 1..Len(cs) : cs[i][1] \in {"SetSickVariant", "GetSickScan", "GetSickScan2"}
                      /\ cs[i][2] = p /\ cs[i][3] = gen /\ cs[i][6] = "io"}

\* Sessions that are initialized and not torn down, registered or not.
LiveSessions(p) ==
  (IF sick_lms_map[p].tag = "obj" /\ sick_lms_map[p].init THEN 1 ELSE 0)
  + Cardinality({o \in leaked : o.path = p /\ o.init})

\* The registered sessions (the entries that point to an object).
NumSessions(m) == Cardinality({k \in Keys : m[k].tag = "obj"})

Registered(p) == p \in Keys /\ sick_lms_map[p].tag = "obj" /\ sick_lms_map[p].init

(***************************************************************************)
(* C1.  An init on a path that holds an initialized session tears the old  *)
(* session down (Uninitialize, then delete and erase) before the new       *)
(* object is constructed and its Initialize is called; and in every step   *)
(* every session that leaves the registry is closed exactly once (by       *)
(* exactly one Uninitialize, or by the fatal I/O error that disconnected   *)
(* it) and deleted exactly once, a session that stays is not closed, a     *)
(* session opened by the step is registered, and no object is ever left    *)
(* behind without a pointer to it.                                         *)
(***************************************************************************)
\* The keys of the objects the calls in cs are made on.
Touched(cs) == {cs[i][2] : i \in 1..Len(cs)}

C1_TeardownBeforeReinit ==
  [][/\ leaked' = {}
     /\ \A p \in Keys \ Touched(calls') :
          (sick_lms_map[p].tag = "obj" /\ sick_lms_map[p].init) => sick_lms_map'[p].tag = "obj"
     /\ \A p \in Touched(calls') :
          LET un   == CallsAt(calls', "Uninitialize", p, "old")
              dl   == CallsAt(calls', "delete", p, "old")
              nw   == CallsAt(calls', "new", p, "new") \cup CallsAt(calls', "Initialize", p, "new")
              io   == FatalAt(calls', p, "old")
              gone == sick_lms_map'[p].tag # "obj" \/ nw # {}
              opened == {i \in CallsAt(calls', "Initialize", p, "new") : calls'[i][6] = "ok"}
          IN /\ (sick_lms_map[p].tag = "obj" /\ sick_lms_map[p].init) =>
                  IF gone
                    THEN /\ Cardinality(un) + Cardinality(io) = 1
                         /\ Cardinality(dl) = 1
                         /\ \A i \in un \cup io, j \in dl : i < j
                         /\ \A i \in un \cup dl, j \in nw : i < j
                    ELSE un = {} /\ dl = {} /\ io = {}
             /\ sick_lms_map[p].tag # "obj" => un = {} /\ dl = {}
             /\ CallsAt(calls', "Uninitialize", p, "new") = {}
             /\ Cardinality(CallsAt(calls', "Initialize", p, "new")) <= 1
             /\ IF opened # {}
                  THEN sick_lms_map'[p].tag = "obj" /\ sick_lms_map'[p].init
                       /\ CallsAt(calls', "delete", p, "new") = {}
                  ELSE nw # {} => Cardinality(CallsAt(calls', "delete", p, "new")) = 1
    ]_vars

\* A path was initialized again: the old session was uninitialized and
\* deleted, then the new one constructed and initialized.
C1_Witness ==
  /\ last.cmd = "init"
  /\ result = MsgOk
  /\ Len(calls) = 4
  /\ calls[1][1] = "Uninitialize" /\ calls[2][1] = "delete"
  /\ calls[3][1] = "new" /\ calls[4][1] = "Initialize"
  /\ Registered(last.target)

(***************************************************************************)
(* C2.  For each device path there is at most one session that has been    *)
(* initialized and not torn down, counting the registered session and the  *)
(* objects that are no longer in the registry.                             *)
(***************************************************************************)
C2_OneLiveSessionPerPath == \A p \in Keys : LiveSessions(p) <= 1

\* A path was initialized again while another session was registered, and
\* the old session's Uninitialize threw.
C2_Witness ==
  /\ last.cmd = "init"
  /\ result = MsgOk
  /\ NumSessions(sick_lms_map) >= 2
  /\ Len(calls) = 4
  /\ calls[1][1] = "Uninitialize" /\ calls[1][6] = "throw"
  /\ LiveSessions(last.target) = 1

(***************************************************************************)
(* C3.  The registry never holds more than MAX_NUM_LMS_DEVICES sessions,   *)
(* and an init (with an admitted argument list) issued while that many     *)
(* sessions are registered ends in the capacity error, makes no driver     *)
(* call and leaves the registry as it was.                                 *)
(***************************************************************************)
C3_CapacityEnforced ==
  [][/\ NumSessions(sick_lms_map') <= MAX_NUM_LMS_DEVICES
     /\ (/\ NumSessions(sick_lms_map) = MAX_NUM_LMS_DEVICES
         /\ last'.cmd = "init"
         /\ result' \notin {MsgArgsIn, MsgArgsOut, MsgReadArg})
        => /\ result' = MsgCapacity
           /\ calls' = <<>>
           /\ sick_lms_map' = sick_lms_map
    ]_vars

(***************************************************************************)
(* C4.  When the host exits, the loop of mexExit terminates with an empty  *)
(* registry: every iteration removes the first entry, tearing its session  *)
(* down once (also when Uninitialize throws), and the hook returns only    *)
(* when no entry is left.                                                  *)
(***************************************************************************)
C4_ShutdownTearsDownAll ==
  /\ (phase = "exiting" /\ Size(sick_lms_map) > 0) =>
        sick_lms_map[Begin(sick_lms_map)].tag = "obj"
  /\ (phase = "exiting" /\ last.cmd = "mexExit") =>
        /\ Len(calls) = 2
        /\ calls[1][1] = "Uninitialize" /\ calls[2][1] = "delete"
        /\ calls[1][2] = last.target /\ calls[2][2] = last.target
        /\ sick_lms_map[last.target].tag = "absent"
  /\ (phase = "exited" /\ at_exit) => Size(sick_lms_map) = 0

(***************************************************************************)
(* C5.  A grab whose GetSickScan times out leaves the session registered   *)
(* and initialized (Ready), so that the next grab on it can succeed.       *)
(***************************************************************************)
C5_GrabTimeoutKeepsSession ==
  (/\ last.cmd = "grab"
   /\ \E i \in 1..Len(calls) : calls[i][1] \in {"GetSickScan", "GetSickScan2"}
                               /\ calls[i][6] = "timeout")
  => Registered(last.target)

(***************************************************************************)
(* C6.  In the command line programs, for every set T of iterations whose  *)
(* GetSickScan times out, an acquisition loop ends after exactly NUM_SCANS *)
(* calls of GetSickScan, NUM_SCANS - |T| of them successful; the value     *)
(* count is printed for the successful iterations only, and it is the      *)
(* count of that scan; the session is still initialized when the loop is   *)
(* over, and the program goes on to the variant change or to Uninitialize. *)
(***************************************************************************)
CliLoopOver == cli_i = NUM_SCANS /\ cli_pc \in {"variant2", "uninit"}

C6_CliLoopToleratesTimeouts ==
  /\ cli_T \subseteq 0..(NUM_SCANS - 1)
  /\ \A e \in cli_printed : e[1] \in 0..(NUM_SCANS - 1) \ cli_T
  /\ (cli_pc \in {"loop", "loop1", "loop2"}) =>
        /\ cli_i < NUM_SCANS
        /\ cli_ok + Cardinality(cli_T) = cli_i
        /\ cli_sess.init
  /\ CliLoopOver =>
        /\ Len(cli_calls) > NUM_SCANS
        /\ \A k \in 0..(NUM_SCANS - 1) : cli_calls[Len(cli_calls) - k][1] = "GetSickScan"
        /\ cli_calls[Len(cli_calls) - NUM_SCANS][1] # "GetSickScan"
        /\ cli_ok = NUM_SCANS - Cardinality(cli_T)
        /\ cli_printed = {<<i, DrvNumValues(cli_sess)>> : i \in 0..(NUM_SCANS - 1) \ cli_T}
        /\ cli_sess.init
        /\ cli_exit = 0
  /\ (cli_pc = "done" /\ cli_exit = 0) =>
        /\ cli_calls[Len(cli_calls)][1] = "Uninitialize"
        /\ cli_calls[Len(cli_calls) - 1][1] = "GetSickScan"
        /\ ~cli_sess.init

C6_Witness ==
  /\ cli_prog = "lms_set_variant"
  /\ cli_pc = "done" /\ cli_exit = 0
  /\ cli_T = {2, 6}
  /\ cli_ok = NUM_SCANS - 2
  /\ Cardinality(cli_printed) = NUM_SCANS - 2

(***************************************************************************)
(* C7.  A variant command that resolves to the session of an LMS Fast is   *)
(* always rejected with the Fast message, whatever angle and resolution it *)
(* carries: SetSickVariant is not called and the registry is unchanged.    *)
(***************************************************************************)
C7_FastRejectsVariant ==
  [][(/\ last'.cmd = "variant"
      /\ last'.target \in Keys
      /\ sick_lms_map[last'.target].tag = "obj"
      /\ sick_lms_map[last'.target].init
      /\ DeviceIsFast(last'.target))
     => /\ result' = MsgFast
        /\ calls' = <<>>
        /\ sick_lms_map' = sick_lms_map
    ]_vars

C7_Witness ==
  /\ last.cmd = "variant"
  /\ result = MsgFast
  /\ Registered(last.target)
  /\ DeviceIsFast(last.target)
  /\ NumSessions(sick_lms_map) >= 2

(***************************************************************************)
(* C8.  An init rejected for its baud rate has made no driver call         *)
(* (no Uninitialize of an existing session, no Initialize of a new one)    *)
(* and leaves the registry as it was, also when the path already holds an  *)
(* initialized session.                                                    *)
(***************************************************************************)
C8_InvalidBaudRejectedFirst ==
  [][(last'.cmd = "init" /\ result' = MsgBaud)
     => /\ calls' = <<>>
        /\ sick_lms_map' = sick_lms_map
    ]_vars

(***************************************************************************)
(* C9.  No consumer hands an unknown sentinel to the driver: Initialize    *)
(* never gets SICK_BAUD_UNKNOWN, SetSickVariant never gets                 *)
(* SICK_SCAN_ANGLE_UNKNOWN or SICK_SCAN_RESOLUTION_UNKNOWN, in the bridge  *)
(* and in both command line programs; and a variant command rejected for   *)
(* its angle or its resolution makes no driver call and leaves the         *)
(* registry, and the session in it, unchanged.                             *)
(***************************************************************************)
NoUnknownSentinel ==
  /\ \A i \in 1..Len(calls) :
       /\ calls[i][1] = "Initialize" => calls[i][4] # SICK_BAUD_UNKNOWN
       /\ calls[i][1] = "SetSickVariant" =>
             /\ calls[i][4] # SICK_SCAN_ANGLE_UNKNOWN
             /\ calls[i][5] # SICK_SCAN_RESOLUTION_UNKNOWN
  /\ \A i \in 1..Len(cli_calls) :
       /\ cli_calls[i][1] = "Initialize" => cli_calls[i][2] # SICK_BAUD_UNKNOWN
       /\ cli_calls[i][1] = "SetSickVariant" =>
             /\ cli_calls[i][2] # SICK_SCAN_ANGLE_UNKNOWN
             /\ cli_calls[i][3] # SICK_SCAN_RESOLUTION_UNKNOWN

C9_NoUnknownSentinel ==
  [][/\ NoUnknownSentinel'
     /\ (last'.cmd = "variant" /\ result' \in {MsgAngle, MsgRes})
        => /\ calls' = <<>>
           /\ sick_lms_map' = sick_lms_map
           /\ sick_lms_map[last'.target].tag = "obj"
           /\ sick_lms_map[last'.target].init
    ]_vars

C9_Witness ==
  /\ last.cmd = "variant"
  /\ result \in {MsgAngle, MsgRes}
  /\ Registered(last.target)
  /\ sick_lms_map[last.target].angle # DefaultAngle

(***************************************************************************)
(* C10.  A variant command gets the config message exactly when the device *)
(* refuses the variant; that message differs from the one of an I/O        *)
(* failure and from those of the local validation; and the command leaves  *)
(* the registry unchanged: the session stays registered and initialized    *)
(* with the variant it had.                                                *)
(***************************************************************************)
C10_ConfigErrorKeepsSession ==
  [][(last'.cmd = "variant")
     => /\ (result' = MsgConfig) <=>
              (\E i \in 1..Len(calls') : calls'[i][1] = "SetSickVariant"
                                         /\ calls'[i][6] = "config")
        /\ (result' = MsgConfig)
           => /\ MsgConfig \notin {MsgError, MsgIO, MsgAngle, MsgRes, MsgFast, MsgOk}
              /\ Len(calls') = 1
              /\ sick_lms_map' = sick_lms_map
              /\ sick_lms_map'[last'.target].tag = "obj"
              /\ sick_lms_map'[last'.target].init
    ]_vars

C10_Witness ==
  /\ last.cmd = "variant"
  /\ result = MsgConfig
  /\ Registered(last.target)
  /\ sick_lms_map[last.target].angle # DefaultAngle
  /\ sick_lms_map[last.target].res # DefaultRes

(***************************************************************************)
(* C11.  After an init, variant or grab command in which a driver call     *)
(* ended with an I/O error, the path the command was addressed to is not   *)
(* in the registry, the object the call was made on has been deleted       *)
(* (after the failing call), and no object is left without a pointer to    *)
(* it: no later command can reach the session.                             *)
(***************************************************************************)
\* The positions in cs of the calls that ended with an I/O error.
IoErrorAt(cs) ==
  {i \in 1..Len(cs) : cs[i][1] \in {"Initialize", "SetSickVariant", "GetSickScan", "GetSickScan2"}
                      /\ cs[i][6] = "io"}

C11_IoErrorRemovesSession ==
  [][(last'.cmd \in {"init", "variant", "grab"} /\ IoErrorAt(calls') # {})
     => /\ last'.target \in Keys
        /\ sick_lms_map'[last'.target].tag = "absent"
        /\ leaked' = {}
        /\ result' \in {MsgIO, MsgError}
        /\ \A i \in IoErrorAt(calls') :
             /\ calls'[i][2] = last'.target
             /\ \E j \in (i + 1)..Len(calls') :
                  /\ calls'[j][1] = "delete"
                  /\ calls'[j][2] = calls'[i][2]
                  /\ calls'[j][3] = calls'[i][3]
             /\ \A j \in (i + 1)..Len(calls') : calls'[j][1] = "delete"
    ]_vars

C11_Witness ==
  /\ last.cmd = "grab"
  /\ IoErrorAt(calls) # {}
  /\ result = MsgError
  /\ sick_lms_map[last.target].tag = "absent"
  /\ NumSessions(sick_lms_map) >= 1

(***************************************************************************)
(* C12.  For clear, variant, grab and info with an admitted argument       *)
(* count: when exactly one session is registered, a command either names   *)
(* a path (and is rejected if that path is unreadable or not registered)   *)
(* or acts on that session; a command rejected because several devices     *)
(* are operating, or because its path is not registered, touches no        *)
(* session, and the former happens only when more than one session is      *)
(* registered.                                                             *)
(***************************************************************************)
C12_DefaultDeviceResolution ==
  [][(last'.cmd \in {"clear", "variant", "grab", "info"})
     => /\ (Size(sick_lms_map) = 1 /\ NumSessions(sick_lms_map) = 1)
           => \/ result' \in {MsgArgsIn, MsgArgsOut, MsgReadArg, MsgNoPath}
              \/ /\ last'.target = Begin(sick_lms_map)
                 /\ result' \in {MsgOk, MsgError, MsgFast, MsgAngle, MsgRes, MsgConfig}
        /\ (result' \in {MsgMultiple, MsgNoPath})
           => /\ calls' = <<>>
              /\ sick_lms_map' = sick_lms_map
        /\ (result' = MsgMultiple) => NumSessions(sick_lms_map) > 1
    ]_vars

(***************************************************************************)
(* C13.  The bridge calls GetSickScan, SetSickVariant,                     *)
(* GetSickStatusAsString and Uninitialize only on a session that is        *)
(* registered and initialized at the time of the call: not on an object    *)
(* the command has already uninitialized or deleted, not after a call      *)
(* that failed with an I/O error, and not on an object whose Initialize    *)
(* did not succeed.  The registry keeps no uninitialized session, and a    *)
(* command that finds no device, no such path or an uninitialized device   *)
(* is rejected without any driver call.                                    *)
(***************************************************************************)
SessionOps ==
  {"GetSickScan", "GetSickScan2", "SetSickVariant", "GetSickStatusAsString",
   "GetSickSoftwareVersionAsString", "Uninitialize"}

C13_NoCallOnDisconnected ==
  [][/\ \A i \in 1..Len(calls') :
          (calls'[i][1] \in SessionOps)
          => /\ calls'[i][3] = "old"
             /\ sick_lms_map[calls'[i][2]].tag = "obj"
             /\ sick_lms_map[calls'[i][2]].init
             /\ \A j \in 1..(i - 1) :
                  (calls'[j][2] = calls'[i][2] /\ calls'[j][3] = "old")
                  => /\ calls'[j][1] \notin {"Uninitialize", "delete"}
                     /\ calls'[j][6] # "io"
     /\ \A p \in Keys : sick_lms_map'[p].tag = "obj" => sick_lms_map'[p].init
     /\ (result' \in {MsgNoDevice, MsgNoPath, MsgNotInit, MsgMultiple})
        => calls' = <<>> /\ sick_lms_map' = sick_lms_map
    ]_vars

\* A scan failed with an I/O error: the session was deleted without
\* Uninitialize (or anything else) being called on it.
C13_Witness ==
  /\ last.cmd = "grab"
  /\ Len(calls) = 2
  /\ calls[1][1] = "GetSickScan" /\ calls[1][6] = "io"
  /\ calls[2][1] = "delete"
  /\ sick_lms_map[last.target].tag = "absent"


(***************************************************************************)
(* C14.  When the unit does not answer at the requested baud rate b but    *)
(* answers at another supported rate b2, init succeeds, the session runs   *)
(* at b2 and the baud rate init reports is b2, not b; the rates tried are  *)
(* the requested one and then the others in order, up to the one that      *)
(* answered; an Initialize that ends with no answer has tried every        *)
(* supported rate.                                                         *)
(***************************************************************************)
InitializeAt(cs) == {i \in 1..Len(cs) : cs[i][1] = "Initialize"}

C14_ReportedBaudIsNegotiated ==
  /\ (last.cmd = "init" /\ result = MsgOk) =>
       /\ output.kind = "init"
       /\ sick_lms_map[last.target].baud = DeviceBaud(last.target)
       /\ output.baud = sick_lms_map[last.target].baud
  /\ \A i \in InitializeAt(calls) :
       LET b == calls[i][4]  tried == calls[i][5]
       IN /\ \A k \in 1..Len(tried) : tried[k] = FallbackOrder(b)[k]
          /\ calls[i][6] = "ok" =>
               /\ tried # <<>>
               /\ tried[Len(tried)] = DeviceBaud(calls[i][2])
               /\ \A k \in 1..(Len(tried) - 1) : tried[k] # DeviceBaud(calls[i][2])
          /\ calls[i][6] = "timeout" =>
               {tried[k] : k \in 1..Len(tried)} = {SupportedBauds[k] : k \in 1..Len(SupportedBauds)}

(***************************************************************************)
(* C16.  A scan holds angle / resolution + 1 values for the variant the    *)
(* session is in (361 for 180 degrees at 0.5, 401 for 100 degrees at       *)
(* 0.25), never more than SICK_MAX_NUM_MEASUREMENTS, and successive scans  *)
(* of one session hold the same number of values until its variant is      *)
(* changed: every array grab returns has that length, and every            *)
(* "Num. Values" line of the command-line programs shows it.               *)
(***************************************************************************)
StepsPerDegree(res) ==
  CASE res = "SICK_SCAN_RESOLUTION_25"  -> 4
    [] res = "SICK_SCAN_RESOLUTION_50"  -> 2
    [] res = "SICK_SCAN_RESOLUTION_100" -> 1

Degrees(angle) ==
  CASE angle = "SICK_SCAN_ANGLE_100" -> 100
    [] angle = "SICK_SCAN_ANGLE_180" -> 180

ValuesOfVariant(angle, res) == Degrees(angle) * StepsPerDegree(res) + 1

GrabbedArrays(o) ==
  {o.range : f \in o.fields \cap {"range"}} \cup {o.reflect : f \in o.fields \cap {"reflect"}}

Populated(o) == {f \in {"range", "reflect"} : f \in o.fields /\ o[f] > 0}

C20_GrabFieldsFollowDevice ==
  (last.cmd = "grab" /\ result = MsgOk) =>
    /\ output.kind = "grab"
    /\ LET s == sick_lms_map[last.target]
       IN /\ Populated(output) = {"range", "reflect"} <=> DeviceIsFast(s.path)
          /\ ~DeviceIsFast(s.path) =>
               /\ Cardinality(Populated(output)) = 1
               /\ Populated(output) = {"reflect"}
                    <=> DeviceMeasuringMode(s.path) = SICK_MS_MODE_REFLECTIVITY
               /\ Populated(output) = {"range"}
                    <=> DeviceMeasuringMode(s.path) # SICK_MS_MODE_REFLECTIVITY
          /\ \A f \in {"range", "reflect"} \ Populated(output) :
               f \notin output.fields /\ output[f] = 0

C20_Witness ==
  /\ last.cmd = "grab" /\ result = MsgOk /\ output.kind = "grab"
  /\ ~DeviceIsFast(sick_lms_map[last.target].path)
  /\ DeviceMeasuringMode(sick_lms_map[last.target].path) = SICK_MS_MODE_REFLECTIVITY
  /\ Populated(output) = {"reflect"}
  /\ \E q \in Keys : /\ DeviceIsFast(q)
                     /\ sick_lms_map[q].tag = "obj"
                     /\ sick_lms_map[q].init

(***************************************************************************)
(* C19.  A command addressed to path p, one that fails and tears the       *)
(* session of p down included, leaves every session registered under       *)
(* another path as it was: still registered, still initialized, in the     *)
(* same variant, and with no driver operation invoked on it.               *)
(***************************************************************************)
C19_OtherSessionsUntouched ==
  [][(last'.cmd \in {"init", "clear", "variant", "grab", "info", "invalid"}) =>
       \A q \in Keys \ {last'.target} :
         sick_lms_map[q].tag = "obj" =>
           /\ sick_lms_map'[q] = sick_lms_map[q]
           /\ q \notin Touched(calls')
    ]_vars

C19_Witness ==
  /\ last.cmd = "clear" /\ result = MsgOk
  /\ last.target \in Keys
  /\ sick_lms_map[last.target].tag = "absent"
  /\ Len(calls) = 2
  /\ \E q \in Keys \ {last.target} :
       /\ Registered(q)
       /\ sick_lms_map[q].angle = "SICK_SCAN_ANGLE_100"

(***************************************************************************)
(* C18.  In both command-line programs every GetSickScan and               *)
(* SetSickVariant call is issued while the session is Ready: after an      *)
(* Initialize that returned, before Uninitialize, and on a session no      *)
(* earlier call has disconnected.  The calls of lms_set_variant are, in    *)
(* order, Initialize, SetSickVariant(100, 0.25), NUM_SCANS scans,          *)
(* SetSickVariant(180, 0.50), NUM_SCANS scans, Uninitialize (those of      *)
(* lms_simple_app: Initialize, NUM_SCANS scans, Uninitialize), and each    *)
(* step of the program issues one call, which has returned when the next   *)
(* one is issued.                                                          *)
(***************************************************************************)
Scans == [i \in 1..NUM_SCANS |-> CliCall("GetSickScan", "", "")]

CallsOfProgram(prog, baud) ==
  IF prog = "lms_simple_app"
    THEN <<CliCall("Initialize", baud, "")>> \o Scans \o <<CliCall("Uninitialize", "", "")>>
    ELSE <<CliCall("Initialize", baud, ""),
           CliCall("SetSickVariant", "SICK_SCAN_ANGLE_100", "SICK_SCAN_RESOLUTION_25")>>
         \o Scans
         \o <<CliCall("SetSickVariant", "SICK_SCAN_ANGLE_180", "SICK_SCAN_RESOLUTION_50")>>
         \o Scans
         \o <<CliCall("Uninitialize", "", "")>>

C18_CliCallsWhileReady ==
  [][/\ Len(cli_calls') <= Len(cli_calls) + 1
     /\ Len(cli_calls') <= Len(CallsOfProgram(cli_prog', cli_baud'))
     /\ cli_calls' = SubSeq(CallsOfProgram(cli_prog', cli_baud'), 1, Len(cli_calls'))
     /\ (/\ Len(cli_calls') = Len(cli_calls) + 1
         /\ cli_calls'[Len(cli_calls')][1] \in {"GetSickScan", "SetSickVariant"}) =>
          /\ cli_sess.init
          /\ cli_calls # <<>> /\ cli_calls[1][1] = "Initialize"
          /\ \A k \in 1..Len(cli_calls) : cli_calls[k][1] # "Uninitialize"
    ]_vars

C18_Witness ==
  /\ cli_prog = "lms_set_variant"
  /\ cli_pc = "done" /\ cli_exit = 0
  /\ Len(cli_calls) = 2 * NUM_SCANS + 4
  /\ cli_T # {}

C17_CorruptedFrameRejected ==
  (codec.stage = "decoded" /\ codec.mutated # 0) =>
    /\ codec.reply.err = "corrupt-frame"
    /\ codec.reply.payload = <<>>

C17_Witness ==
  /\ codec.stage = "decoded"
  /\ codec.alg = "crc16"
  /\ codec.mutated = 3
  /\ Len(codec.payload) = MaxPayload
  /\ codec.frame[3] # codec.payload[1]
  /\ codec.reply.err = "corrupt-frame"

(***************************************************************************)
(* C21.  In the struct of every successful grab the bearings are as many   *)
(* as the primary values of that call; the first is (180 - fov)/2, each    *)
(* next one is larger by exactly res, and when there are fov/res + 1 of    *)
(* them the last is (180 + fov)/2; fov and res are the values the struct   *)
(* reports, which are those of the session at that call.  Angles are in    *)
(* hundredths of a degree.                                                 *)
(***************************************************************************)
\* Entry i (from 0) of the bearing array.
BearingAt(o, i) == o.bearing.first + i * o.bearing.step

\* The number of primary values: they are under range, or under reflect
\* when the unit returns reflectivity only.
PrimaryCount(o) == IF "range" \in o.fields THEN o.range ELSE o.reflect

C21_BearingsFollowFovAndRes ==
  (last.cmd = "grab" /\ result = MsgOk) =>
    /\ output.kind = "grab"
    /\ LET s == sick_lms_map[last.target]
           n == output.bearing.len
       IN /\ output.fov = Degrees(s.angle)
          /\ output.res * StepsPerDegree(s.res) = 100
          /\ n = PrimaryCount(output)
          /\ n > 0
          /\ 2 * BearingAt(output, 0) = (180 - output.fov) * 100
          /\ \A i \in 1..(n - 1) :
               BearingAt(output, i) - BearingAt(output, i - 1) = output.res
          /\ (n - 1) * output.res = output.fov * 100 =>
               2 * BearingAt(output, n - 1) = (180 + output.fov) * 100

C21_Witness ==
  /\ last.cmd = "grab" /\ result = MsgOk /\ output.kind = "grab"
  /\ output.fov = 100 /\ output.res = 25
  /\ output.bearing.len = 401
  /\ BearingAt(output, 0) = 4000
  /\ BearingAt(output, 400) = 14000

(***************************************************************************)
(* C22.  An init ends with the capacity error only when accepting it would *)
(* take the registered sessions above MAX_NUM_LMS_DEVICES: the registry    *)
(* holds that many sessions and the path is not one of them.  An init on a *)
(* registered path is not refused for capacity, it replaces the session.   *)
(***************************************************************************)
C22_CapacityErrorOnlyWhenFull ==
  [][(last'.cmd = "init" /\ result' = MsgCapacity) =>
       /\ last'.target \in Keys
       /\ NumSessions(sick_lms_map) >= MAX_NUM_LMS_DEVICES
       /\ sick_lms_map[last'.target].tag # "obj"
    ]_vars

(***************************************************************************)
(* C23.  A command-line program exits with status 0 exactly when           *)
(* Initialize, every SetSickVariant and Uninitialize succeeded and every   *)
(* GetSickScan succeeded or timed out.  The first driver call that ends    *)
(* any other way is the last one the program makes, and the exit status is *)
(* then -1.                                                                *)
(***************************************************************************)
Tolerated(op, outcome) == outcome = "ok" \/ (op = "GetSickScan" /\ outcome = "timeout")

C23_ExitStatusFollowsOutcomes ==
  [][/\ Len(cli_calls') = Len(cli_calls) + 1 =>
          LET op == cli_calls'[Len(cli_calls')][1]
          IN /\ cli_pc # "done"
             /\ ~Tolerated(op, cli_last') => (cli_pc' = "done" /\ cli_exit' = -1)
             /\ Tolerated(op, cli_last') =>
                  IF op = "Uninitialize"
                    THEN cli_pc' = "done" /\ cli_exit' = 0
                    ELSE cli_pc' # "done" /\ cli_exit' = cli_exit
     /\ cli_pc = "done" => (cli_calls' = cli_calls /\ cli_exit' = cli_exit)
     /\ cli_pc' = "done" =>
          /\ cli_exit' \in {0, -1}
          /\ cli_exit' = 0 <=>
               /\ cli_calls' = CallsOfProgram(cli_prog', cli_baud')
               /\ cli_last' = "ok"
    ]_vars

C23_Witness ==
  /\ cli_prog = "lms_set_variant"
  /\ cli_pc = "done" /\ cli_exit = -1
  /\ cli_last = "io"
  /\ Len(cli_calls) > NUM_SCANS + 3
  /\ cli_calls[Len(cli_calls)][1] = "GetSickScan"
  /\ cli_T # {}

(***************************************************************************)
(* C24.  Every run of a command-line program in which Initialize succeeded *)
(* calls Uninitialize exactly once before main() returns, on the success   *)
(* path and on every error path, and the session is not initialized any    *)
(* more when main() returns.                                               *)
(***************************************************************************)
CliInitialized == cli_calls # <<>> /\ cli_sess.baud # "none"

C24_CliAlwaysUninitializes ==
  (cli_pc = "done" /\ CliInitialized) =>
    /\ Cardinality({k \in 1..Len(cli_calls) : cli_calls[k][1] = "Uninitialize"}) = 1
    /\ ~cli_sess.init

(***************************************************************************)
(* C25.  Whenever the bridge is between two commands, every entry of       *)
(* sick_lms_map holds a non-null SickLMS object that is initialized and    *)
(* whose device path is the entry's key, and an init whose Initialize      *)
(* failed has left no entry under its path.                                *)
(***************************************************************************)
EntryIsLiveSession(m, k) ==
  /\ m[k].tag = "obj"
  /\ m[k].init
  /\ m[k].path = k

C25_RegistryEntriesAreLiveSessions ==
  (phase = "running") =>
    /\ \A k \in KeysOf(sick_lms_map) : EntryIsLiveSession(sick_lms_map, k)
    /\ (last.cmd = "init" /\ result \in {MsgIO, MsgError})
         => sick_lms_map[last.target].tag = "absent"

(***************************************************************************)
(* C26.  A clear, variant, grab or info command, with any number of input  *)
(* and output arguments, adds no key to sick_lms_map and does not look the *)
(* map up under a path it has not resolved to a registered key: the keys   *)
(* after the command are among the keys before it, and the command does    *)
(* not end in a fault on an entry that holds no session.                   *)
(***************************************************************************)
C26_CommandsAddNoKey ==
  [][(last'.cmd \in {"clear", "variant", "grab", "info"})
     => /\ KeysOf(sick_lms_map') \subseteq KeysOf(sick_lms_map)
        /\ result' # SIGSEGV
    ]_vars

==============================================================================
